---- MODULE Spec2Model ----
(***************************************************************************)
(* Books service (src/books): the request handlers of main.py over the     *)
(* books table of database.py, the validators of models.py and the media   *)
(* host wrappers of utils/cloudinary_utils.py.                             *)
(*                                                                         *)
(* Every handler runs in its own SQLAlchemy session (db_session.py) and    *)
(* writes the table only at db.commit(); a handler that raises before the  *)
(* commit leaves the table as it was (the session is closed, which rolls   *)
(* back).  Each action below is one whole request.                         *)
(***************************************************************************)
EXTENDS Integers, Sequences, FiniteSets, TLC

VARIABLES
    books,            \* the books table: books[i] is the row with id i
    cloud,            \* public ids of the assets the media host holds
    uploads,          \* number of assets the media host has issued so far
    cloudinaryReady,  \* CLOUDINARY_READY, fixed at start-up
    req,              \* the request being answered, with the table as it found it
    resp,             \* the response to it
    tomb,             \* history: the rows as they were just before a Delete deactivated them
    walk,             \* a client that follows the next links of the listing
    procs,            \* procs[w]: the request worker w is serving and how far it has got
    log               \* history: the commits and the media host's deletes, in order

vars == <<books, cloud, uploads, cloudinaryReady, req, resp, tomb, walk, procs, log>>

----------------------------------------------------------------------------
(* Bounds of the model *)

MaxBooks == 2         \* rows the table may hold
MaxUploads == 1       \* assets the media host may issue
MaxClock == 1         \* ticks of the store's clock (func.now())
MaxWorkers == 2       \* requests in progress at the same time

(* Program constants *)

MaxImageSize == 10485760
MinLimit == 1
MaxLimit == 100
MinOffset == 0
PriceDecimals == 2

AllowedImageTypes == {"image/jpeg", "image/png", "image/webp", "image/avif"}

----------------------------------------------------------------------------
(* Text: a string is a sequence of one-character strings. *)

Whitespace == {" ", "\t"}

IsSpace(c) == c \in Whitespace

RECURSIVE LStrip(_)
LStrip(s) ==
    IF s = <<>> THEN <<>>
    ELSE IF IsSpace(Head(s)) THEN LStrip(Tail(s)) ELSE s

RECURSIVE RStrip(_)
RStrip(s) ==
    IF s = <<>> THEN <<>>
    ELSE IF IsSpace(s[Len(s)]) THEN RStrip(SubSeq(s, 1, Len(s) - 1)) ELSE s

\* str.strip(), and pydantic's strip_whitespace
Strip(s) == RStrip(LStrip(s))

\* the text without the re.sub
Uncollapsed(s) == s

\* re.sub(r"\s+", " ", v): every maximal run of whitespace becomes one space
RECURSIVE CollapseWs(_)
CollapseWs(s) ==
    IF s = <<>> THEN <<>>
    ELSE IF IsSpace(Head(s))
         THEN <<" ">> \o CollapseWs(LStrip(s))
         ELSE <<Head(s)>> \o CollapseWs(Tail(s))

\* NonEmptyStr: strip_whitespace, then min_length=1
NonEmptyStrOk(s) == Len(Strip(s)) >= 1

\* a text field of BookRequest / BookUpdateRequest after validation
NormalizeText(s) == CollapseWs(Strip(s))

----------------------------------------------------------------------------
(* Price.  A supplied price is a decimal literal: sign, coefficient and    *)
(* exponent as written, sent as a string ("str") or as a number ("num",    *)
(* a float: JSON number or multipart Form float).  A Decimal is the same    *)
(* triple: its value is coef * 10^exp, negated when neg.                   *)

RECURSIVE Pow10(_)
Pow10(n) == IF n <= 0 THEN 1 ELSE 10 * Pow10(n - 1)

\* str(float): the shortest digits, at least one fractional digit
RECURSIVE FloatRepr(_)
FloatRepr(d) ==
    IF d.exp >= 0
    THEN [d EXCEPT !.coef = d.coef * Pow10(d.exp + 1), !.exp = -1]
    ELSE IF d.exp < -1 /\ d.coef % 10 = 0
         THEN FloatRepr([d EXCEPT !.coef = d.coef \div 10, !.exp = d.exp + 1])
         ELSE d

Decimal(neg, coef, exp) == [neg |-> neg, coef |-> coef, exp |-> exp]

\* whether Decimal(str(x)), or float(x) for a form field, accepts the text of a
\* price; a price of kind "text" is a string that is not a number
Parseable(p) == p.kind \in {"str", "num"}

\* Decimal(str(price)) as the handlers compute it
ToDecimal(p) ==
    LET text == IF p.kind = "num" THEN FloatRepr(p) ELSE p
    IN  Decimal(text.neg, text.coef, text.exp)

\* Field(ge=0)
PriceNonNegative(d) == ~(d.neg /\ d.coef > 0)

\* validate_price_precision: v.as_tuple().exponent < -2 is rejected
PricePrecisionOk(d) == ~(d.exp < -PriceDecimals)

PriceOk(d) == PriceNonNegative(d) /\ PricePrecisionOk(d)

\* the price stored as it was parsed, without quantize
Unquantized(d) == d

\* v.quantize(Decimal("0.01"), rounding=ROUND_HALF_UP) of a value that passed
\* the precision check: the digits are padded, none is dropped
Quantize(d) == Decimal(d.neg, d.coef * Pow10(d.exp + PriceDecimals), -PriceDecimals)

----------------------------------------------------------------------------
(* Requests.  A JSON payload and a multipart form are records holding the  *)
(* fields that were sent; payload.get(f) is None when f is not in the      *)
(* record.  An uploaded file is <<>> (none) or <<[content_type, size]>>.   *)

TextFields == {"title", "author", "description"}

Has(p, f) == f \in DOMAIN p

\* ImageData returned by upload_book_cover for the n-th asset
ImageData(n) == [url |-> n, public_id |-> n]

\* the fields of BookRequest that fail validation
BookRequestErrors(p) ==
    {f \in TextFields : ~Has(p, f) \/ ~NonEmptyStrOk(p[f])}
    \cup {f \in {"price"} : ~PriceOk(ToDecimal(p.price))}

\* the fields of BookUpdateRequest that fail validation; "__root__" is the
\* model validator at_least_one_field
BookUpdateRequestErrors(p) ==
    LET fieldErrs == {f \in TextFields : Has(p, f) /\ ~NonEmptyStrOk(p[f])}
                     \cup {f \in {"price"} : Has(p, f) /\ ~PriceOk(ToDecimal(p.price))}
    IN  IF fieldErrs # {} THEN fieldErrs
        ELSE IF \A f \in TextFields \cup {"price"} : ~Has(p, f) THEN {"__root__"}
        ELSE {}

----------------------------------------------------------------------------
(* Responses *)

Response(op, id, status, error) ==
    [op |-> op, id |-> id, status |-> status, error |-> error,
     book |-> <<>>,          \* <<row>> when the body is a BookResponse
     page |-> <<>>,          \* <<[data, total, limit, offset]>> when the body is a BooksPage
     linkHeader |-> <<>>,    \* <<links>> when a Link header is set
     xTotalCount |-> <<>>,   \* <<n>> when X-Total-Count is set
     uploaded |-> <<>>,      \* <<ImageData>> when the body is an ImageData
     violations |-> {},      \* the fields a validation error names
     details |-> <<>>,       \* <<d>> when the body is {"error": ..., "details": d}
     calls |-> <<>>]         \* the media-host wrappers the request invoked, in order

InitResp == Response("none", 0, 0, "")

\* the details object {}
NoDetails == <<>>

\* http_exception_handler: {"error": exc.detail, "details": {}}
HttpError(op, id, status, error, errs) ==
    [Response(op, id, status, error) EXCEPT !.violations = errs, !.details = <<NoDetails>>]

\* validation_exception_handler: FastAPI refused the parameters errs
RequestInvalid(op, id, errs) ==
    [Response(op, id, 422, "Validation failed") EXCEPT
        !.violations = errs, !.details = <<[validation_errors |-> errs]>>]

\* an exception no handler is registered for: the server's plain 500
Unhandled(op, id) == Response(op, id, 500, "Internal Server Error")

\* what the collaborators do during a request
\*   upOk: the host stores an upload     delOk: the host destroys an asset
\*   dbOk: db.commit() succeeds          readOk: the reads after it succeed
Outcome(upOk, delOk, dbOk, readOk) ==
    [upOk |-> upOk, delOk |-> delOk, dbOk |-> dbOk, readOk |-> readOk]
NoFault == Outcome(TRUE, TRUE, TRUE, TRUE)

NoFields == <<>>

Request(op, id, transport, p, file, remove, o, table) ==
    [op |-> op, id |-> id, transport |-> transport, payload |-> p, file |-> file,
     remove |-> remove, outcome |-> o, limit |-> 0, offset |-> 0, before |-> table]

ListRequest(limit, offset, table) ==
    [Request("list", 0, "", NoFields, <<>>, FALSE, NoFault, table) EXCEPT
        !.limit = limit, !.offset = offset]

NoRequest == Request("none", 0, "", NoFields, <<>>, FALSE, NoFault, <<>>)

\* Requests are served one at a time: the response to one request is
\* delivered before the next request is taken up.
Idle == req = NoRequest

----------------------------------------------------------------------------
(* Media host *)

\* upload_image_to_cloudinary: the status it raises, or 200
UploadStatus(file, upOk) ==
    IF ~cloudinaryReady THEN 501
    ELSE IF file.content_type \notin AllowedImageTypes THEN 400
    ELSE IF file.size > MaxImageSize THEN 400
    ELSE IF upOk THEN 200 ELSE 500

\* whether upload_image_to_cloudinary reaches upload_book_cover
UploadReachesHost(file) ==
    /\ cloudinaryReady
    /\ file.content_type \in AllowedImageTypes
    /\ file.size <= MaxImageSize

UploadError(status) ==
    IF status = 501 THEN "Image upload not configured"
    ELSE IF status = 400 THEN "Invalid image"
    ELSE "Failed to upload image"

\* delete_image_from_cloudinary(public_id): what the host holds afterwards
CloudAfterDelete(held, public_id, delOk) ==
    IF cloudinaryReady /\ delOk THEN held \ {public_id} ELSE held

\* its return value
DeleteReturns(held, public_id, delOk) ==
    cloudinaryReady /\ delOk /\ public_id \in held

DeleteCall(public_id) == [fn |-> "delete", public_id |-> public_id]
UploadCall == [fn |-> "upload", public_id |-> 0]

----------------------------------------------------------------------------
(* The table *)

Ids == 1..Len(books)

\* the lookup without its active filter
AnyBook(table, id) ==
    IF id \in 1..Len(table) THEN <<table[id]>> ELSE <<>>

\* select(Book).where(Book.id == book_id, Book.active.is_(True)).scalar_one_or_none()
ActiveBook(table, id) ==
    IF id \in 1..Len(table) /\ table[id].active THEN <<table[id]>> ELSE <<>>

\* the listing without its active filter
AllIds(table) == 1..Len(table)

\* the ids that .where(Book.active.is_(True)) selects
ActiveIds(table) == {i \in 1..Len(table) : table[i].active}

\* no traversal of the listing under way
NoWalk == [on |-> FALSE, limit |-> 0, offset |-> 0, seen |-> <<>>, done |-> FALSE]

\* the workers that serve requests side by side, each with a session of its own
Workers == 1..MaxWorkers

\* A request in a worker's hands.  loaded is the row as the session's SELECT
\* found it, row the attributes of the mapped object as the handler has set
\* them since; pc is the statement the handler is about to run.
Worker(op, id, p, file, remove) ==
    [op |-> op, id |-> id, payload |-> p, file |-> file, remove |-> remove,
     pc |-> "idle", turns |-> 0, held |-> FALSE, released |-> 0,
     loaded |-> <<>>, row |-> <<>>, readAt |-> 0, status |-> 0,
     total |-> 0, items |-> <<>>, during |-> {}, trace |-> <<>>]

NoWorker == Worker("none", 0, NoFields, <<>>, FALSE)

TypeOK ==
    /\ \A i \in 1..Len(books) : books[i].id = i
    /\ cloud \subseteq 1..uploads
    /\ uploads \in Nat
    /\ \A i, j \in 1..Len(books) : i <= j => books[i].created_at <= books[j].created_at
    /\ cloudinaryReady \in BOOLEAN

Init ==
    /\ books = <<>>
    /\ cloud = {}
    /\ uploads = 0
    /\ cloudinaryReady \in BOOLEAN
    /\ req = NoRequest
    /\ resp = InitResp
    /\ tomb = {}
    /\ walk = NoWalk
    /\ procs = [w \in Workers |-> NoWorker]
    /\ log = <<>>

\* func.now() at an insert: the store's clock never runs backwards
Clock(table) == IF table = <<>> THEN 0 ELSE table[Len(table)].created_at

----------------------------------------------------------------------------
(* POST /v1/books *)

\* price: Optional[float] = Form(None): the form fields FastAPI cannot parse
FormErrors(p) == {f \in {"price"} : Has(p, f) /\ ~Parseable(p[f])}

\* the multipart path's own check: fields that are None or ""
MissingFormFields(p) ==
    {f \in TextFields : ~Has(p, f) \/ p[f] = <<>>} \cup {f \in {"price"} : ~Has(p, f)}

\* Book(...) as create_book builds it and the store completes it
NewBook(table, p, image, at) ==
    [id |-> Len(table) + 1,
     title |-> Strip(NormalizeText(p.title)),
     author |-> Strip(NormalizeText(p.author)),
     description |-> Strip(NormalizeText(p.description)),
     price |-> Quantize(ToDecimal(p.price)),
     active |-> TRUE,
     image |-> image,
     created_at |-> at]

\* db.commit() and what follows it.  A failing commit is rolled back.  After
\* a commit the handler reads the row again (db.refresh(book), or book.id and
\* book.title of the expired instance); a SQLAlchemyError there is answered
\* like one of the commit, with the writes already committed.
Commit(op, id, status, newBooks, calls, dbOk, readOk) ==
    IF dbOk
    THEN /\ books' = newBooks
         /\ resp' = IF readOk
                    THEN [Response(op, id, status, "") EXCEPT
                             !.book = IF op \in {"create", "update"} THEN <<newBooks[id]>>
                                      ELSE <<>>,
                             !.uploaded = IF op = "attach" THEN newBooks[id].image ELSE <<>>,
                             !.calls = calls]
                    ELSE [HttpError(op, id, 500, "Internal server error", {}) EXCEPT
                             !.calls = calls]
    ELSE /\ books' = books
         /\ resp' = [HttpError(op, id, 500, "Internal server error", {}) EXCEPT
                        !.calls = calls]

\* a request that raises before db.commit()
Fail(op, id, status, error, violations, calls) ==
    /\ books' = books
    /\ resp' = [HttpError(op, id, status, error, violations) EXCEPT !.calls = calls]

create_book(transport, p, file, at, upOk, dbOk, readOk) ==
    LET op == "create"
        persist(image, calls) ==
            Commit(op, Len(books) + 1, 201, Append(books, NewBook(books, p, image, at)), calls, dbOk, readOk)
    IN
    /\ at >= Clock(books)
    /\ UNCHANGED cloudinaryReady
    /\ IF transport = "json" THEN
           /\ UNCHANGED <<cloud, uploads>>
           /\ IF ~Has(p, "price") \/ ~Parseable(p.price)
              THEN \* Decimal(str(None)) and Decimal("abc") raise
                   \* decimal.InvalidOperation, which no except clause catches
                   /\ books' = books
                   /\ resp' = Unhandled(op, 0)
              ELSE IF BookRequestErrors(p) # {}
              THEN Fail(op, 0, 422, "validation", BookRequestErrors(p), <<>>)
              ELSE persist(<<>>, <<>>)
       ELSE IF transport = "multipart" THEN
           IF FormErrors(p) # {}
           THEN /\ UNCHANGED <<books, cloud, uploads>>
                /\ resp' = RequestInvalid(op, 0, FormErrors(p))
           ELSE IF MissingFormFields(p) # {}
           THEN /\ UNCHANGED <<cloud, uploads>>
                /\ Fail(op, 0, 422, "Missing required fields", MissingFormFields(p), <<>>)
           ELSE IF BookRequestErrors(p) # {}
           THEN /\ UNCHANGED <<cloud, uploads>>
                /\ Fail(op, 0, 422, "validation", BookRequestErrors(p), <<>>)
           ELSE IF file = <<>>
           THEN /\ UNCHANGED <<cloud, uploads>>
                /\ persist(<<>>, <<>>)
           ELSE LET st == UploadStatus(file[1], upOk)
                    calls == IF UploadReachesHost(file[1]) THEN <<UploadCall>> ELSE <<>>
                IN  IF st # 200
                    THEN /\ UNCHANGED <<cloud, uploads>>
                         /\ Fail(op, 0, st, UploadError(st), {}, calls)
                    ELSE /\ uploads' = uploads + 1
                         /\ cloud' = cloud \cup {uploads + 1}
                         /\ persist(<<ImageData(uploads + 1)>>, calls)
       ELSE /\ UNCHANGED <<cloud, uploads>>
            /\ Fail(op, 0, 415, "Unsupported Media Type", {}, <<>>)

----------------------------------------------------------------------------
(* GET /v1/books and GET /v1/books/{book_id} *)

\* bounds that leave out the least limit and the least offset
QueryErrorsExclusive(limit, offset) ==
    {f \in {"limit"} : limit <= MinLimit \/ limit > MaxLimit}
    \cup {f \in {"offset"} : offset <= MinOffset}

\* Query(ge=1, le=100) and Query(ge=0): the parameters FastAPI rejects
QueryErrors(limit, offset) ==
    {f \in {"limit"} : limit < MinLimit \/ limit > MaxLimit}
    \cup {f \in {"offset"} : offset < MinOffset}

\* the orders ORDER BY created_at DESC may return the active rows in: rows of
\* equal created_at come in any order
CreatedDescOrders(table) ==
    LET ids == ActiveIds(table)
        n == Cardinality(ids)
    IN  {o \in [1..n -> ids] :
            /\ \A i, j \in 1..n : i # j => o[i] # o[j]
            /\ \A i, j \in 1..n : i < j => table[o[i]].created_at >= table[o[j]].created_at}

\* a count that leaves out the active filter
CountRows(table) == Len(table)

\* select(func.count()).select_from(Book).where(Book.active.is_(True))
CountActive(table) == Cardinality(ActiveIds(table))

Max(a, b) == IF a > b THEN a ELSE b
Min(a, b) == IF a < b THEN a ELSE b

\* a page that starts one row late
SliceFromNext(seq, limit, offset) ==
    LET first == offset + 2
        last == IF offset + limit < Len(seq) THEN offset + limit ELSE Len(seq)
    IN  IF first > last THEN <<>> ELSE [i \in 1..(last - first + 1) |-> seq[first + i - 1]]

\* .limit(limit).offset(offset) of an ordered result
Slice(seq, limit, offset) ==
    LET first == offset + 1
        last == IF offset + limit < Len(seq) THEN offset + limit ELSE Len(seq)
    IN  IF first > last THEN <<>> ELSE [i \in 1..(last - first + 1) |-> seq[first + i - 1]]

\* a next link also on the last full page
PageLinksPastEnd(limit, offset, total) ==
    (IF offset + limit <= total
     THEN <<[rel |-> "next", limit |-> limit, offset |-> offset + limit]>> ELSE <<>>)
    \o
    (IF offset > 0
     THEN <<[rel |-> "prev", limit |-> limit, offset |-> Max(0, offset - limit)]>> ELSE <<>>)

\* the RFC5988 links of a page, next before prev
PageLinks(limit, offset, total) ==
    (IF offset + limit < total
     THEN <<[rel |-> "next", limit |-> limit, offset |-> offset + limit]>> ELSE <<>>)
    \o
    (IF offset > 0
     THEN <<[rel |-> "prev", limit |-> limit, offset |-> Max(0, offset - limit)]>> ELSE <<>>)

get_books(limit, offset) ==
    /\ UNCHANGED <<books, cloud, uploads, cloudinaryReady>>
    /\ IF QueryErrors(limit, offset) # {}
       THEN resp' = RequestInvalid("list", 0, QueryErrors(limit, offset))
       ELSE \E order \in CreatedDescOrders(books) :
               LET total == CountActive(books)
                   rows == Slice([i \in 1..Len(order) |-> books[order[i]]], limit, offset)
                   links == PageLinks(limit, offset, total)
               IN  resp' = [Response("list", 0, 200, "") EXCEPT
                               !.page = <<[data |-> rows, total |-> total,
                                           limit |-> limit, offset |-> offset]>>,
                               !.linkHeader = IF links # <<>> THEN <<links>> ELSE <<>>,
                               !.xTotalCount = <<total>>]

get_book(id) ==
    /\ UNCHANGED <<books, cloud, uploads, cloudinaryReady>>
    /\ IF ActiveBook(books, id) = <<>>
       THEN resp' = HttpError("get", id, 404, "Book not found", {})
       ELSE resp' = [Response("get", id, 200, "") EXCEPT !.book = ActiveBook(books, id)]

----------------------------------------------------------------------------
(* PUT /v1/books/{book_id} *)

UpdateFields == <<"title", "author", "description", "price">>

\* every attribute assigned from the request, sent or not
ApplyAllJsonFields(book, p) ==
    [book EXCEPT
        !.title = IF Has(p, "title") THEN Strip(NormalizeText(p.title)) ELSE @,
        !.author = IF Has(p, "author") THEN Strip(NormalizeText(p.author)) ELSE @,
        !.description = IF Has(p, "description") THEN Strip(NormalizeText(p.description))
                        ELSE <<>>,
        !.price = IF Has(p, "price") THEN Quantize(ToDecimal(p.price)) ELSE @]

\* JSON path: the validated BookUpdateRequest applied to the row
ApplyJsonFields(book, p) ==
    [book EXCEPT
        !.title = IF Has(p, "title") THEN Strip(NormalizeText(p.title)) ELSE @,
        !.author = IF Has(p, "author") THEN Strip(NormalizeText(p.author)) ELSE @,
        !.description = IF Has(p, "description") THEN Strip(NormalizeText(p.description)) ELSE @,
        !.price = IF Has(p, "price") THEN Quantize(ToDecimal(p.price)) ELSE @]

\* multipart path: one BookUpdateRequest per field that was sent
ApplyFormFields(book, p) ==
    [book EXCEPT
        !.title = IF Has(p, "title") THEN NormalizeText(p.title) ELSE @,
        !.author = IF Has(p, "author") THEN NormalizeText(p.author) ELSE @,
        !.description = IF Has(p, "description") THEN NormalizeText(p.description) ELSE @,
        !.price = IF Has(p, "price") THEN Quantize(ToDecimal(p.price)) ELSE @]

\* multipart path: the field whose BookUpdateRequest raises first, if any
FirstFormError(p) ==
    LET bad(f) == Has(p, f) /\ IF f = "price" THEN ~PriceOk(ToDecimal(p.price))
                                            ELSE ~NonEmptyStrOk(p[f])
        idx == {i \in 1..Len(UpdateFields) : bad(UpdateFields[i])}
    IN  IF idx = {} THEN {}
        ELSE {UpdateFields[CHOOSE i \in idx : \A j \in idx : i <= j]}

\* payload.get("remove_image", False)
JsonRemove(p) == Has(p, "remove_image") /\ p.remove_image

\* an image handling that looks at the new file before the remove flag
ImageStepFileFirst(book, remove, file, upOk, delOk) ==
    LET had == book.image # <<>>
        old == book.image[1].public_id
    IN  IF file # <<>>
        THEN LET c1 == IF had THEN CloudAfterDelete(cloud, old, delOk) ELSE cloud
                 k1 == IF had THEN <<DeleteCall(old)>> ELSE <<>>
                 st == UploadStatus(file[1], upOk)
                 k2 == IF UploadReachesHost(file[1]) THEN k1 \o <<UploadCall>> ELSE k1
             IN  IF st = 200
                 THEN [status |-> 200, image |-> <<ImageData(uploads + 1)>>,
                       cloud |-> c1 \cup {uploads + 1}, uploads |-> uploads + 1,
                       calls |-> k2]
                 ELSE [status |-> st, image |-> book.image,
                       cloud |-> c1, uploads |-> uploads, calls |-> k2]
        ELSE IF remove /\ had
        THEN [status |-> 200, image |-> <<>>,
              cloud |-> CloudAfterDelete(cloud, old, delOk), uploads |-> uploads,
              calls |-> <<DeleteCall(old)>>]
        ELSE [status |-> 200, image |-> book.image,
              cloud |-> cloud, uploads |-> uploads, calls |-> <<>>]

\* an image handling that goes on without the image when the upload raises
ImageStepLenient(book, remove, file, upOk, delOk) ==
    LET had == book.image # <<>>
        old == book.image[1].public_id
    IN  IF remove /\ had
        THEN [status |-> 200, image |-> <<>>,
              cloud |-> CloudAfterDelete(cloud, old, delOk), uploads |-> uploads,
              calls |-> <<DeleteCall(old)>>]
        ELSE IF file # <<>>
        THEN LET c1 == IF had THEN CloudAfterDelete(cloud, old, delOk) ELSE cloud
                 k1 == IF had THEN <<DeleteCall(old)>> ELSE <<>>
                 st == UploadStatus(file[1], upOk)
                 k2 == IF UploadReachesHost(file[1]) THEN k1 \o <<UploadCall>> ELSE k1
             IN  IF st = 200
                 THEN [status |-> 200, image |-> <<ImageData(uploads + 1)>>,
                       cloud |-> c1 \cup {uploads + 1}, uploads |-> uploads + 1,
                       calls |-> k2]
                 ELSE [status |-> 200, image |-> book.image,
                       cloud |-> c1, uploads |-> uploads, calls |-> k2]
        ELSE [status |-> 200, image |-> book.image,
              cloud |-> cloud, uploads |-> uploads, calls |-> <<>>]

\* The image handling of update_book (multipart) and of upload_book_image:
\* what the media host and the row's image are once it has run.
\*   status 200: the handler goes on to db.commit(); otherwise it raises status
ImageStep(book, remove, file, upOk, delOk) ==
    LET had == book.image # <<>>
        old == book.image[1].public_id
    IN  IF remove /\ had
        THEN [status |-> 200, image |-> <<>>,
              cloud |-> CloudAfterDelete(cloud, old, delOk), uploads |-> uploads,
              calls |-> <<DeleteCall(old)>>]
        ELSE IF file # <<>>
        THEN LET c1 == IF had THEN CloudAfterDelete(cloud, old, delOk) ELSE cloud
                 k1 == IF had THEN <<DeleteCall(old)>> ELSE <<>>
                 st == UploadStatus(file[1], upOk)
                 k2 == IF UploadReachesHost(file[1]) THEN k1 \o <<UploadCall>> ELSE k1
             IN  IF st = 200
                 THEN [status |-> 200, image |-> <<ImageData(uploads + 1)>>,
                       cloud |-> c1 \cup {uploads + 1}, uploads |-> uploads + 1,
                       calls |-> k2]
                 ELSE [status |-> st, image |-> book.image,
                       cloud |-> c1, uploads |-> uploads, calls |-> k2]
        ELSE [status |-> 200, image |-> book.image,
              cloud |-> cloud, uploads |-> uploads, calls |-> <<>>]

update_book(id, transport, p, file, removeForm, upOk, delOk, dbOk, readOk) ==
    LET op == "update"
        found == ActiveBook(books, id)
        book == found[1]
    IN
    /\ UNCHANGED cloudinaryReady
    /\ IF transport = "multipart" /\ FormErrors(p) # {}
       THEN /\ UNCHANGED <<books, cloud, uploads>>
            /\ resp' = RequestInvalid(op, id, FormErrors(p))
       ELSE IF found = <<>>
       THEN /\ UNCHANGED <<cloud, uploads>>
            /\ Fail(op, id, 404, "Book not found", {}, <<>>)
       ELSE IF transport = "json" THEN
           IF Has(p, "price") /\ ~Parseable(p.price)
           THEN \* Decimal(str(payload["price"])) raises decimal.InvalidOperation
                /\ UNCHANGED <<books, cloud, uploads>>
                /\ resp' = Unhandled(op, id)
           ELSE IF BookUpdateRequestErrors(p) # {}
           THEN /\ UNCHANGED <<cloud, uploads>>
                /\ Fail(op, id, 422, "validation", BookUpdateRequestErrors(p), <<>>)
           ELSE LET b1 == ApplyJsonFields(book, p)
                    img == ImageStep(b1, JsonRemove(p), <<>>, upOk, delOk)
                IN  /\ cloud' = img.cloud
                    /\ uploads' = img.uploads
                    /\ Commit(op, id, 200,
                              [books EXCEPT ![id] = [b1 EXCEPT !.image = img.image]],
                              img.calls, dbOk, readOk)
       ELSE IF transport = "multipart" THEN
           IF FirstFormError(p) # {}
           THEN /\ UNCHANGED <<cloud, uploads>>
                /\ Fail(op, id, 422, "validation", FirstFormError(p), <<>>)
           ELSE LET b1 == ApplyFormFields(book, p)
                    img == ImageStep(b1, removeForm, file, upOk, delOk)
                IN  /\ cloud' = img.cloud
                    /\ uploads' = img.uploads
                    /\ IF img.status # 200
                       THEN Fail(op, id, img.status, UploadError(img.status), {}, img.calls)
                       ELSE Commit(op, id, 200,
                                   [books EXCEPT ![id] = [b1 EXCEPT !.image = img.image]],
                                   img.calls, dbOk, readOk)
       ELSE /\ UNCHANGED <<cloud, uploads>>
            /\ Fail(op, id, 415, "Unsupported Media Type", {}, <<>>)

----------------------------------------------------------------------------
(* DELETE /v1/books/{book_id} *)

delete_book(id, delOk, dbOk, readOk) ==
    LET op == "delete"
        found == ActiveBook(books, id)
        book == found[1]
        had == book.image # <<>>
        calls == IF had THEN <<DeleteCall(book.image[1].public_id)>> ELSE <<>>
    IN
    /\ UNCHANGED <<uploads, cloudinaryReady>>
    /\ IF found = <<>>
       THEN /\ UNCHANGED cloud
            /\ Fail(op, id, 404, "Book not found", {}, <<>>)
       ELSE /\ cloud' = IF had THEN CloudAfterDelete(cloud, book.image[1].public_id, delOk)
                        ELSE cloud
            /\ Commit(op, id, 200, [books EXCEPT ![id].active = FALSE], calls, dbOk, readOk)

----------------------------------------------------------------------------
(* POST and DELETE /v1/books/{book_id}/image *)

\* an attach that drops the old reference from the row as soon as the old asset
\* is destroyed
upload_book_image_eager(id, file, upOk, delOk, dbOk, readOk) ==
    LET op == "attach"
        found == ActiveBook(books, id)
        book == found[1]
        img == ImageStep(book, FALSE, file, upOk, delOk)
    IN
    /\ file # <<>>
    /\ UNCHANGED cloudinaryReady
    /\ IF found = <<>>
       THEN /\ UNCHANGED <<cloud, uploads>>
            /\ Fail(op, id, 404, "Book not found", {}, <<>>)
       ELSE /\ cloud' = img.cloud
            /\ uploads' = img.uploads
            /\ IF img.status # 200
               THEN /\ books' = [books EXCEPT ![id].image = <<>>]
                    /\ resp' = [HttpError(op, id, img.status, UploadError(img.status), {})
                                   EXCEPT !.calls = img.calls]
               ELSE Commit(op, id, 200, [books EXCEPT ![id].image = img.image],
                           img.calls, dbOk, readOk)

upload_book_image(id, file, upOk, delOk, dbOk, readOk) ==
    LET op == "attach"
        found == ActiveBook(books, id)
        book == found[1]
        img == ImageStep(book, FALSE, file, upOk, delOk)
    IN
    /\ file # <<>>
    /\ UNCHANGED cloudinaryReady
    /\ IF found = <<>>
       THEN /\ UNCHANGED <<cloud, uploads>>
            /\ Fail(op, id, 404, "Book not found", {}, <<>>)
       ELSE /\ cloud' = img.cloud
            /\ uploads' = img.uploads
            /\ IF img.status # 200
               THEN Fail(op, id, img.status, UploadError(img.status), {}, img.calls)
               ELSE Commit(op, id, 200, [books EXCEPT ![id].image = img.image],
                           img.calls, dbOk, readOk)

\* a removal that gives up when the media host does not destroy the asset
delete_book_image_checked(id, delOk, dbOk, readOk) ==
    LET op == "detach"
        found == ActiveBook(books, id)
        book == found[1]
    IN
    /\ UNCHANGED <<uploads, cloudinaryReady>>
    /\ IF found = <<>>
       THEN /\ UNCHANGED cloud
            /\ Fail(op, id, 404, "Book not found", {}, <<>>)
       ELSE IF book.image = <<>>
       THEN /\ UNCHANGED cloud
            /\ Fail(op, id, 404, "Book has no image", {}, <<>>)
       ELSE LET old == book.image[1].public_id
            IN  /\ cloud' = CloudAfterDelete(cloud, old, delOk)
                /\ IF DeleteReturns(cloud, old, delOk)
                   THEN Commit(op, id, 200, [books EXCEPT ![id].image = <<>>],
                               <<DeleteCall(old)>>, dbOk, readOk)
                   ELSE Fail(op, id, 500, "Failed to delete image", {}, <<DeleteCall(old)>>)

delete_book_image(id, delOk, dbOk, readOk) ==
    LET op == "detach"
        found == ActiveBook(books, id)
        book == found[1]
    IN
    /\ UNCHANGED <<uploads, cloudinaryReady>>
    /\ IF found = <<>>
       THEN /\ UNCHANGED cloud
            /\ Fail(op, id, 404, "Book not found", {}, <<>>)
       ELSE IF book.image = <<>>
       THEN /\ UNCHANGED cloud
            /\ Fail(op, id, 404, "Book has no image", {}, <<>>)
       ELSE LET old == book.image[1].public_id
            IN  /\ cloud' = CloudAfterDelete(cloud, old, delOk)
                /\ Commit(op, id, 200, [books EXCEPT ![id].image = <<>>],
                          <<DeleteCall(old)>>, dbOk, readOk)

----------------------------------------------------------------------------
(* The requests tried.  A specification tries the handlers on the inputs   *)
(* of a record                                                             *)
(*   [maxBooks, maxUploads, clock, texts, prices, files, limits, offsets,  *)
(*    faults]                                                              *)

Price(kind, neg, coef, exp) == [kind |-> kind, neg |-> neg, coef |-> coef, exp |-> exp]

Field(f, v) == f :> v

Without(p, f) == [g \in DOMAIN p \ {f} |-> p[g]]

File(content_type, size) == <<[content_type |-> content_type, size |-> size]>>

BasePayload ==
    [title |-> <<"a">>, author |-> <<"a">>, description |-> <<"a">>,
     price |-> Price("num", FALSE, 19, -1)]

OfKind(prices, kinds) == {q \in prices : q.kind \in kinds}

\* a valid payload, with one field varied or left out
CreatePayloads(in, kinds) ==
    {BasePayload}
    \cup UNION {{[BasePayload EXCEPT ![f] = t] : t \in in.texts[f]} : f \in TextFields}
    \cup {[BasePayload EXCEPT !.price = q] : q \in OfKind(in.prices, kinds)}
    \cup {Without(BasePayload, f) : f \in DOMAIN BasePayload}

\* no field, one field, or a title and a price
UpdatePayloads(in, kinds) ==
    {NoFields}
    \cup UNION {{Field(f, t) : t \in in.texts[f]} : f \in TextFields}
    \cup {Field("price", q) : q \in OfKind(in.prices, kinds)}
    \cup {Field("title", t) @@ Field("price", q) :
             t \in in.texts["title"], q \in OfKind(in.prices, kinds)}

\* the payloads sent together with a file or a remove flag
ImagePayloads(in, kinds) ==
    {NoFields, Field("title", <<"a">>)}
    \cup {Field("price", q) : q \in OfKind(in.prices, kinds)}

\* at most one collaborator fails during a request
Outcomes(faults) ==
    {NoFault}
    \cup {Outcome(FALSE, TRUE, TRUE, TRUE) : f \in faults \cap {"upload"}}
    \cup {Outcome(TRUE, FALSE, TRUE, TRUE) : f \in faults \cap {"delete"}}
    \cup {Outcome(TRUE, TRUE, FALSE, TRUE) : f \in faults \cap {"store"}}
    \cup {Outcome(TRUE, TRUE, TRUE, FALSE) : f \in faults \cap {"read"}}

TryIds(in) == 1..(in.maxBooks + 1)

Respond ==
    /\ ~Idle
    /\ req' = NoRequest
    /\ resp' = InitResp
    /\ UNCHANGED <<books, cloud, uploads, cloudinaryReady, tomb, walk, procs, log>>

Create(in, transport, p, file, at, o) ==
    /\ Idle
    /\ Len(books) < in.maxBooks
    /\ req' = Request("create", 0, transport, p, file, FALSE, o, books)
    /\ create_book(transport, p, file, at, o.upOk, o.dbOk, o.readOk)
    /\ uploads' <= in.maxUploads
    /\ UNCHANGED <<tomb, walk, procs, log>>

List(limit, offset) ==
    /\ Idle
    /\ req' = ListRequest(limit, offset, books)
    /\ get_books(limit, offset)
    /\ UNCHANGED <<tomb, procs, log>>

Get(id) ==
    /\ Idle
    /\ req' = Request("get", id, "", NoFields, <<>>, FALSE, NoFault, books)
    /\ get_book(id)
    /\ UNCHANGED <<tomb, walk, procs, log>>

Update(in, id, transport, p, file, remove, o) ==
    /\ Idle
    /\ req' = Request("update", id, transport, p, file, remove, o, books)
    /\ update_book(id, transport, p, file, remove, o.upOk, o.delOk, o.dbOk, o.readOk)
    /\ uploads' <= in.maxUploads
    /\ UNCHANGED <<tomb, walk, procs, log>>

Delete(id, o) ==
    /\ Idle
    /\ req' = Request("delete", id, "", NoFields, <<>>, FALSE, o, books)
    /\ delete_book(id, o.delOk, o.dbOk, o.readOk)
    /\ tomb' = IF books' # books THEN tomb \cup {books[id]} ELSE tomb
    /\ UNCHANGED <<walk, procs, log>>

Attach(in, id, file, o) ==
    /\ Idle
    /\ req' = Request("attach", id, "multipart", NoFields, file, FALSE, o, books)
    /\ upload_book_image(id, file, o.upOk, o.delOk, o.dbOk, o.readOk)
    /\ uploads' <= in.maxUploads
    /\ UNCHANGED <<tomb, walk, procs, log>>

Detach(id, o) ==
    /\ Idle
    /\ req' = Request("detach", id, "", NoFields, <<>>, FALSE, o, books)
    /\ delete_book_image(id, o.delOk, o.dbOk, o.readOk)
    /\ UNCHANGED <<tomb, walk, procs, log>>

NextOn(in) ==
    \/ \E p \in CreatePayloads(in, {"str", "num", "text"}), at \in in.clock,
          o \in Outcomes(in.faults \ {"upload", "delete"}) :
          Create(in, "json", p, <<>>, at, o)
    \/ \E p \in CreatePayloads(in, {"num", "text"}), at \in in.clock,
          o \in Outcomes(in.faults \ {"upload", "delete"}) :
          Create(in, "multipart", p, <<>>, at, o)
    \/ \E p \in {BasePayload, Without(BasePayload, "title")}, file \in in.files \ {<<>>},
          at \in in.clock, o \in Outcomes(in.faults \ {"delete"}) :
          Create(in, "multipart", p, file, at, o)
    \/ Create(in, "text/plain", NoFields, <<>>, Clock(books), NoFault)
    \/ \E limit \in in.limits, offset \in in.offsets :
          List(limit, offset) /\ UNCHANGED walk
    \/ \E id \in TryIds(in) : Get(id)
    \/ \E id \in TryIds(in), p \in UpdatePayloads(in, {"str", "num", "text"}),
          o \in Outcomes(in.faults \ {"upload", "delete"}) :
          Update(in, id, "json", p, <<>>, FALSE, o)
    \/ \E id \in TryIds(in), p \in ImagePayloads(in, {"str", "num"}),
          o \in Outcomes(in.faults \ {"upload"}) :
          Update(in, id, "json", p @@ Field("remove_image", TRUE), <<>>, FALSE, o)
    \/ \E id \in TryIds(in), p \in UpdatePayloads(in, {"num", "text"}),
          o \in Outcomes(in.faults \ {"upload", "delete"}) :
          Update(in, id, "multipart", p, <<>>, FALSE, o)
    \/ \E id \in TryIds(in), p \in ImagePayloads(in, {"num"}), file \in in.files,
          remove \in BOOLEAN, o \in Outcomes(in.faults) :
          /\ file # <<>> \/ remove
          /\ Update(in, id, "multipart", p, file, remove, o)
    \/ \E id \in TryIds(in) : Update(in, id, "text/plain", NoFields, <<>>, FALSE, NoFault)
    \/ \E id \in TryIds(in), o \in Outcomes(in.faults \ {"upload"}) : Delete(id, o)
    \/ \E id \in TryIds(in), file \in in.files \ {<<>>}, o \in Outcomes(in.faults) :
          Attach(in, id, file, o)
    \/ \E id \in TryIds(in), o \in Outcomes(in.faults \ {"upload"}) : Detach(id, o)
    \/ Respond

AllFaults == {"upload", "delete", "store", "read"}

GoodFile == File("image/png", MaxImageSize)

AllFiles == {<<>>, GoodFile, File("image/png", MaxImageSize + 1), File("text/plain", 1)}

\* a price such as "abc"
NotANumber == Price("text", FALSE, 0, 0)

\* 1.9, 0, 1.999, 1.990 and -1, as written
PriceLiterals(kind) ==
    { Price(kind, FALSE, 19, -1), Price(kind, FALSE, 0, 0), Price(kind, FALSE, 1999, -3),
      Price(kind, FALSE, 1990, -3), Price(kind, TRUE, 1, 0) }

\* Record lifecycle and images: the title and the price vary
LifecycleInputs ==
    [maxBooks |-> MaxBooks,
     maxUploads |-> MaxUploads,
     clock |-> {0},
     texts |-> [title |-> {<<"\t", "a", " ", " ", "b", " ">>, <<" ">>},
                author |-> {<<" ", "a">>},
                description |-> {<<"a", "\t">>}],
     prices |-> {Price("str", FALSE, 19, -1), Price("num", FALSE, 0, 0),
                 Price("str", FALSE, 1999, -3)},
     files |-> AllFiles,
     limits |-> {MinLimit, MaxLimit},
     offsets |-> {MinOffset, MinOffset + 1},
     faults |-> AllFaults]

Next == NextOn(LifecycleInputs)

Spec == Init /\ [][Next]_vars

\* Field validation: every field varies, no image is ever accepted
FieldsMaxBooks == 1

FieldsInputs ==
    [maxBooks |-> FieldsMaxBooks,
     maxUploads |-> MaxUploads,
     clock |-> {0},
     texts |-> [title |-> {<<>>, <<" ">>, <<"a", "\t", "b">>,
                           <<"\t", "a", " ", " ", "b", " ">>},
                author |-> {<<"\t">>, <<"a", " ", "\t", "b">>},
                description |-> {<<>>, <<" ", "a", " ", "b">>}],
     prices |-> PriceLiterals("str") \cup PriceLiterals("num") \cup {NotANumber},
     files |-> {File("text/plain", 1)},
     limits |-> {MinLimit},
     offsets |-> {MinOffset},
     faults |-> {"store", "read"}]

NextFields == NextOn(FieldsInputs)

SpecFields == Init /\ [][NextFields]_vars

\* Image replacement: one row, two uploads
ImagesMaxBooks == 1
ImagesMaxUploads == 2

ImagesInputs ==
    [maxBooks |-> ImagesMaxBooks,
     maxUploads |-> ImagesMaxUploads,
     clock |-> {0},
     texts |-> [title |-> {<<"b", " ", " ", "c">>}, author |-> {}, description |-> {}],
     prices |-> {Price("num", FALSE, 0, 0)},
     files |-> {<<>>, GoodFile, File("text/plain", 1)},
     limits |-> {MinLimit},
     offsets |-> {MinOffset},
     faults |-> AllFaults]

NextImages == NextOn(ImagesInputs)

SpecImages == Init /\ [][NextImages]_vars

\* Pagination: many rows, created at equal or at increasing times
PageMaxBooks == 4
PageMaxOffset == 4

PageInputs ==
    [maxBooks |-> PageMaxBooks,
     maxUploads |-> MaxUploads,
     clock |-> 0..MaxClock,
     texts |-> [f \in TextFields |-> {}],
     prices |-> {},
     files |-> {File("text/plain", 1)},
     limits |-> (MinLimit - 1)..(MaxLimit + 1),
     offsets |-> (MinOffset - 1)..PageMaxOffset,
     faults |-> {}]

NextPage == NextOn(PageInputs)

SpecPage == Init /\ [][NextPage]_vars

\* Traversal of the listing: a client starts at offset 0 with a limit and asks
\* for the page of each next link it is given; the table does not change
\* meanwhile
WalkMaxBooks == 3
WalkMaxLimit == 2

WalkInputs ==
    [maxBooks |-> WalkMaxBooks,
     maxUploads |-> MaxUploads,
     clock |-> 0..MaxClock,
     texts |-> [f \in TextFields |-> {}],
     prices |-> {},
     files |-> {},
     limits |-> MinLimit..WalkMaxLimit,
     offsets |-> {MinOffset},
     faults |-> {}]

\* the next link of a response, if it has one
NextLink(r) ==
    IF r.linkHeader = <<>> THEN {}
    ELSE {r.linkHeader[1][i] : i \in {j \in 1..Len(r.linkHeader[1]) :
                                        r.linkHeader[1][j].rel = "next"}}

StartWalk(limit) ==
    /\ Idle
    /\ ~walk.on
    /\ books # <<>>
    /\ walk' = [NoWalk EXCEPT !.on = TRUE, !.limit = limit]
    /\ UNCHANGED <<books, cloud, uploads, cloudinaryReady, req, resp, tomb, procs, log>>

\* GET the page at the walk's offset, note its items, take its next link
FollowLink ==
    /\ walk.on /\ ~walk.done
    /\ List(walk.limit, walk.offset)
    /\ LET data == resp'.page[1].data
           next == NextLink(resp')
       IN  walk' = [walk EXCEPT
                       !.seen = @ \o [i \in 1..Len(data) |-> data[i].id],
                       !.offset = IF next = {} THEN @
                                  ELSE (CHOOSE l \in next : TRUE).offset,
                       !.done = next = {}]

NextWalk ==
    \/ \E at \in WalkInputs.clock :
          ~walk.on /\ Create(WalkInputs, "json", BasePayload, <<>>, at, NoFault)
    \/ \E id \in TryIds(WalkInputs) : ~walk.on /\ Delete(id, NoFault)
    \/ \E limit \in WalkInputs.limits : StartWalk(limit)
    \/ FollowLink
    \/ Respond

SpecWalk == Init /\ [][NextWalk]_vars

----------------------------------------------------------------------------
(* Requests in progress side by side.  Each worker serves one request at   *)
(* a time in a session of its own, get_db_session; the store is the one    *)
(* database the sessions are bound to, and a worker's statements, SELECT,  *)
(* the media host's calls, COMMIT, interleave with those of the others.    *)
(* The handlers hold no lock and ask for none (no with_for_update).        *)

ConcMaxBooks == 1
ConcMaxUploads == 2
ConcMaxTurns == 2

Columns == {"title", "author", "description", "price", "active", "image"}

\* the workers about to insert a row, and those about to upload a file
Inserting == {v \in Workers : procs[v].op = "create" /\ procs[v].pc \in {"fields", "upload", "commit"}}
Uploading ==
    {v \in Workers : procs[v].file # <<>> /\ procs[v].pc \in {"select", "fields", "purge", "upload"}}

\* a commit as the other sessions see it: a listing under way can read the
\* table it leaves
Seen(w, rec, table) ==
    [v \in Workers |->
        IF v = w THEN rec
        ELSE IF procs[v].op = "list" /\ procs[v].pc \in {"count", "rows"}
        THEN [procs[v] EXCEPT !.during = @ \cup {table}]
        ELSE procs[v]]

\* raise HTTPException(status): the handler is left, the session remains to be closed
Raise(q, status) == [q EXCEPT !.status = status, !.pc = "close"]

Done(q, step) == [q EXCEPT !.trace = Append(@, step)]

\* the first statement of a handler
FirstPc(op) ==
    IF op = "create" THEN "fields" ELSE IF op = "list" THEN "count" ELSE "select"

\* Depends(get_db_session): the request gets its session and the handler starts
Begin(w, op, id, p, file, remove) ==
    LET q == procs[w]
    IN  /\ Idle /\ ~walk.on
        /\ q.pc \in {"idle", "done"}
        /\ q.turns < ConcMaxTurns
        /\ op = "create" => Len(books) + Cardinality(Inserting) < ConcMaxBooks
        /\ file # <<>> => uploads + Cardinality(Uploading) < ConcMaxUploads
        /\ procs' = [procs EXCEPT ![w] =
                        [Worker(op, id, p, file, remove) EXCEPT
                            !.pc = FirstPc(op), !.turns = q.turns + 1, !.held = TRUE,
                            !.during = IF op = "list" THEN {books} ELSE {}]]
        /\ UNCHANGED <<books, cloud, uploads, cloudinaryReady, req, resp, tomb, walk, log>>

\* where a handler goes once its SELECT has found the row
AfterSelect(op, book) ==
    IF op = "update" THEN "fields"
    ELSE IF op = "delete" THEN (IF book.image # <<>> THEN "purge" ELSE "commit")
    ELSE IF op = "attach" THEN (IF book.image # <<>> THEN "purge" ELSE "upload")
    ELSE "purge"

\* select(Book).where(Book.id == book_id, Book.active.is_(True)) of update_book,
\* delete_book, upload_book_image and delete_book_image, and their 404s
Select(w) ==
    LET q == procs[w]
        found == ActiveBook(books, q.id)
    IN  /\ q.pc = "select"
        /\ procs' = [procs EXCEPT ![w] =
              IF found = <<>> THEN Raise(q, 404)
              ELSE IF q.op = "detach" /\ found[1].image = <<>> THEN Raise(q, 404)
              ELSE [q EXCEPT !.loaded = found, !.row = found, !.readAt = Len(log),
                             !.pc = AfterSelect(q.op, found[1])]]
        /\ UNCHANGED <<books, cloud, uploads, cloudinaryReady, req, resp, tomb, walk, log>>

\* where update_book and create_book go once the fields are valid: the image handling
AfterFields(q, book) ==
    IF q.op = "update" /\ q.remove /\ book.image # <<>> THEN "purge"
    ELSE IF q.file # <<>>
    THEN (IF q.op = "update" /\ book.image # <<>> THEN "purge" ELSE "upload")
    ELSE "commit"

\* the fields of a multipart create or update that are refused
FieldErrors(q) ==
    IF q.op = "create"
    THEN IF MissingFormFields(q.payload) # {} THEN MissingFormFields(q.payload)
         ELSE BookRequestErrors(q.payload)
    ELSE FirstFormError(q.payload)

\* a handler that takes the fields as they come and leaves the checks to later
AcceptFields(w) ==
    LET q == procs[w]
        book == IF q.op = "create" THEN NewBook(<<>>, q.payload, <<>>, 0)
                ELSE ApplyFormFields(q.loaded[1], q.payload)
    IN  /\ q.pc = "fields"
        /\ procs' = [procs EXCEPT ![w] =
                        [q EXCEPT !.row = <<book>>, !.pc = AfterFields(q, book)]]
        /\ UNCHANGED <<books, cloud, uploads, cloudinaryReady, req, resp, tomb, walk, log>>

\* BookRequest(...) of create_book, the BookUpdateRequest(...) of each field of
\* update_book and the assignments to the mapped object: nothing is written yet
ValidateFields(w) ==
    LET q == procs[w]
        book == IF q.op = "create" THEN NewBook(<<>>, q.payload, <<>>, 0)
                ELSE ApplyFormFields(q.loaded[1], q.payload)
    IN  /\ q.pc = "fields"
        /\ procs' = [procs EXCEPT ![w] =
              IF FieldErrors(q) # {} THEN Raise(q, 422)
              ELSE Done([q EXCEPT !.row = <<book>>, !.pc = AfterFields(q, book)],
                        "validated")]
        /\ UNCHANGED <<books, cloud, uploads, cloudinaryReady, req, resp, tomb, walk, log>>

\* await delete_image_from_cloudinary(old.public_id), for the image the session loaded
Purge(w, delOk) ==
    LET q == procs[w]
        old == q.row[1].image[1].public_id
        removes == q.op = "update" /\ q.remove
    IN  /\ q.pc = "purge"
        /\ cloud' = CloudAfterDelete(cloud, old, delOk)
        /\ log' = Append(log, [ev |-> "purge", w |-> w, op |-> q.op, id |-> q.id,
                               public_id |-> old])
        /\ procs' = [procs EXCEPT ![w] =
              Done([q EXCEPT !.row = IF removes THEN <<[q.row[1] EXCEPT !.image = <<>>]>> ELSE @,
                             !.pc = IF q.op \in {"delete", "detach"} \/ removes
                                    THEN "commit" ELSE "upload"],
                   "delete")]
        /\ UNCHANGED <<books, uploads, cloudinaryReady, req, resp, tomb, walk>>

\* await upload_image_to_cloudinary(image) and the assignment of its result
Upload(w, upOk) ==
    LET q == procs[w]
        st == UploadStatus(q.file[1], upOk)
    IN  /\ q.pc = "upload"
        /\ IF st = 200
           THEN /\ uploads' = uploads + 1
                /\ cloud' = cloud \cup {uploads + 1}
                /\ procs' = [procs EXCEPT ![w] =
                      Done([q EXCEPT !.row = <<[q.row[1] EXCEPT
                                                  !.image = <<ImageData(uploads + 1)>>]>>,
                                     !.pc = "commit"],
                           "upload")]
           ELSE /\ UNCHANGED <<cloud, uploads>>
                /\ procs' = [procs EXCEPT ![w] =
                      IF UploadReachesHost(q.file[1]) THEN Done(Raise(q, st), "upload")
                      ELSE Raise(q, st)]
        /\ UNCHANGED <<books, cloudinaryReady, req, resp, tomb, walk, log>>

\* the mapped object as the handler leaves it to db.commit(): delete_book has
\* set active, delete_book_image has cleared image
Pending(q) ==
    IF q.op = "delete" THEN [q.row[1] EXCEPT !.active = FALSE]
    ELSE IF q.op = "detach" THEN [q.row[1] EXCEPT !.image = <<>>]
    ELSE q.row[1]

\* a flush that writes every column of the mapped object
FlushAll(table, q) ==
    IF q.op = "create"
    THEN Append(table, [Pending(q) EXCEPT !.id = Len(table) + 1, !.created_at = Clock(table)])
    ELSE [table EXCEPT ![q.id] = Pending(q)]

\* The flush of db.commit(): an INSERT of the new object, or an UPDATE by
\* primary key that sets the columns whose value differs from the loaded one
\* (the unit of work leaves out an attribute with no net change; no UPDATE at
\* all when there is none).
Flush(table, q) ==
    IF q.op = "create"
    THEN Append(table, [Pending(q) EXCEPT !.id = Len(table) + 1, !.created_at = Clock(table)])
    ELSE [table EXCEPT ![q.id] =
             [f \in DOMAIN @ |->
                 IF f \in Columns /\ Pending(q)[f] # q.loaded[1][f] THEN Pending(q)[f]
                 ELSE @[f]]]

\* db.commit(), or the SQLAlchemyError it raises and the rollback
CommitStep(w, dbOk) ==
    LET q == procs[w]
        id == IF q.op = "create" THEN Len(books) + 1 ELSE q.id
    IN  /\ q.pc = "commit"
        /\ IF dbOk
           THEN /\ books' = Flush(books, q)
                /\ log' = Append(log, [ev |-> "commit", w |-> w, op |-> q.op, id |-> id,
                                       public_id |-> 0])
                /\ procs' = Seen(w, Done([q EXCEPT !.id = id, !.pc = "refresh"], "commit"),
                                 Flush(books, q))
           ELSE /\ UNCHANGED <<books, log>>
                /\ procs' = [procs EXCEPT ![w] = Raise(q, 500)]
        /\ UNCHANGED <<cloud, uploads, cloudinaryReady, req, resp, tomb, walk>>

\* db.refresh(book), or the reload of the expired object, and the response
Refresh(w) ==
    LET q == procs[w]
    IN  /\ q.pc = "refresh"
        /\ procs' = [procs EXCEPT ![w] =
                        [q EXCEPT !.row = <<books[q.id]>>,
                                  !.status = IF q.op = "create" THEN 201 ELSE 200,
                                  !.pc = "close"]]
        /\ UNCHANGED <<books, cloud, uploads, cloudinaryReady, req, resp, tomb, walk, log>>

\* get_books: select(func.count()) ...
Count(w) ==
    LET q == procs[w]
    IN  /\ q.pc = "count"
        /\ procs' = [procs EXCEPT ![w] = [q EXCEPT !.total = CountActive(books), !.pc = "rows"]]
        /\ UNCHANGED <<books, cloud, uploads, cloudinaryReady, req, resp, tomb, walk, log>>

\* ... and then select(Book) ... .limit(limit).offset(offset), a second statement
Rows(w) ==
    LET q == procs[w]
    IN  /\ q.pc = "rows"
        /\ \E order \in CreatedDescOrders(books) :
              procs' = [procs EXCEPT ![w] =
                  [q EXCEPT !.items = Slice([i \in 1..Len(order) |-> books[order[i]]],
                                            MaxLimit, MinOffset),
                            !.status = 200, !.pc = "close"]]
        /\ UNCHANGED <<books, cloud, uploads, cloudinaryReady, req, resp, tomb, walk, log>>

\* a dependency that closes the session only after a handler that returned
CloseOnSuccess(w) ==
    LET q == procs[w]
    IN  /\ q.pc = "close"
        /\ procs' = [procs EXCEPT ![w] =
              IF q.status \in {200, 201}
              THEN [q EXCEPT !.held = FALSE, !.released = @ + 1, !.pc = "done"]
              ELSE [q EXCEPT !.pc = "done"]]
        /\ UNCHANGED <<books, cloud, uploads, cloudinaryReady, req, resp, tomb, walk, log>>

\* get_db_session: finally session.close(), whether the handler returned or
\* raised; the close of the with block finds the session closed already
Close(w) ==
    LET q == procs[w]
    IN  /\ q.pc = "close"
        /\ procs' = [procs EXCEPT ![w] =
              [q EXCEPT !.held = FALSE, !.released = IF q.held THEN @ + 1 ELSE @,
                        !.pc = "done"]]
        /\ UNCHANGED <<books, cloud, uploads, cloudinaryReady, req, resp, tomb, walk, log>>

\* the updates tried: a title, an author, both, an empty title, a title with
\* a new image, a title with the remove flag
ConcUpdates ==
    {[p |-> p, file |-> <<>>, remove |-> FALSE] :
        p \in {Field("title", <<"a">>), Field("title", <<"b">>), Field("author", <<"b">>),
               Field("title", <<"b">>) @@ Field("author", <<"b">>), Field("title", <<>>)}}
    \cup {[p |-> Field("title", <<"b">>), file |-> GoodFile, remove |-> FALSE],
          [p |-> Field("title", <<"b">>), file |-> <<>>, remove |-> TRUE]}

ConcIds == 1..ConcMaxBooks

NextConc ==
    \/ \E w \in Workers, p \in {BasePayload, [BasePayload EXCEPT !.title = <<>>]},
          file \in {<<>>, GoodFile} :
          Begin(w, "create", 0, p, file, FALSE)
    \/ \E w \in Workers, id \in ConcIds, u \in ConcUpdates :
          Begin(w, "update", id, u.p, u.file, u.remove)
    \/ \E w \in Workers, id \in ConcIds : Begin(w, "delete", id, NoFields, <<>>, FALSE)
    \/ \E w \in Workers, id \in ConcIds : Begin(w, "attach", id, NoFields, GoodFile, FALSE)
    \/ \E w \in Workers, id \in ConcIds : Begin(w, "detach", id, NoFields, <<>>, FALSE)
    \/ \E w \in Workers : Begin(w, "list", 0, NoFields, <<>>, FALSE)
    \/ \E w \in Workers : Select(w)
    \/ \E w \in Workers : ValidateFields(w)
    \/ \E w \in Workers : Purge(w, TRUE)
    \/ \E w \in Workers, upOk \in BOOLEAN : Upload(w, upOk)
    \/ \E w \in Workers, dbOk \in BOOLEAN : CommitStep(w, dbOk)
    \/ \E w \in Workers : Refresh(w)
    \/ \E w \in Workers : Count(w)
    \/ \E w \in Workers : Rows(w)
    \/ \E w \in Workers : Close(w)

SpecConc == Init /\ [][NextConc]_vars

----------------------------------------------------------------------------
(* Properties.  In a state that is not Idle, req is the request that was   *)
(* just served, req.before the table it found, books the table it left     *)
(* and resp the response.                                                  *)

IsActive(table, id) == id \in 1..Len(table) /\ table[id].active

Served(ops) == req.op \in ops

\* the store did not fail during the request
StoreOk == req.outcome.dbOk /\ req.outcome.readOk

TombIds == {t.id : t \in tomb}

\* C1: once Delete(id) has succeeded, the row is still stored with active=false
\* and the title, author, description and price it had; every Get(id) answers
\* 404; every List leaves the row out of its items and out of its total.
SoftDeleteHidesRow ==
    \A t \in tomb :
        /\ t.id \in 1..Len(books)
        /\ ~books[t.id].active
        /\ books[t.id].title = t.title
        /\ books[t.id].author = t.author
        /\ books[t.id].description = t.description
        /\ books[t.id].price = t.price
        /\ (Served({"get"}) /\ req.id = t.id) => resp.status = 404
        /\ (Served({"list"}) /\ resp.page # <<>>) =>
              /\ \A i \in 1..Len(resp.page[1].data) : resp.page[1].data[i].id # t.id
              /\ resp.page[1].total = Len(books) - Cardinality(TombIds)

\* a List served after a Delete, with another record still active
SoftDeleteListed ==
    /\ tomb # {}
    /\ Served({"list"})
    /\ resp.page # <<>>
    /\ resp.page[1].total = 1
    /\ Len(resp.page[1].data) = 1

\* a multipart request with a price field that is not a number
MalformedForm ==
    /\ req.transport = "multipart"
    /\ "price" \in DOMAIN req.payload
    /\ req.payload.price.kind = "text"

UpdatableFields == {"title", "author", "description", "price"}

SentFields(p) == DOMAIN p \cap UpdatableFields

\* a JSON or multipart Update of an active record
UpdateOfActive ==
    /\ Served({"update"})
    /\ req.transport \in {"json", "multipart"}
    /\ IsActive(req.before, req.id)

\* the request asks for the image to be removed
AsksRemoval == req.remove \/ ("remove_image" \in DOMAIN req.payload /\ req.payload.remove_image)

\* C3: an Update that sends none of title, author, description and price (and
\* no image and no removal, the store not failing) is answered 422 and leaves
\* the table as it was.
ZeroFieldUpdateRejected ==
    (/\ UpdateOfActive
     /\ SentFields(req.payload) = {} /\ req.file = <<>> /\ ~AsksRemoval
     /\ StoreOk)
        => /\ resp.status = 422
           /\ books = req.before

\* Text as the specification normalises it: the words of the input, joined by
\* single spaces.
RECURSIVE Words(_)
Words(s) ==
    IF s = <<>> THEN <<>>
    ELSE IF Head(s) \in Whitespace THEN Words(Tail(s))
    ELSE LET n == CHOOSE k \in 1..Len(s) :
                      /\ \A i \in 1..k : s[i] \notin Whitespace
                      /\ (k = Len(s) \/ s[k + 1] \in Whitespace)
         IN  <<SubSeq(s, 1, n)>> \o Words(SubSeq(s, n + 1, Len(s)))

RECURSIVE JoinWords(_)
JoinWords(ws) ==
    IF ws = <<>> THEN <<>>
    ELSE IF Len(ws) = 1 THEN ws[1]
    ELSE ws[1] \o <<" ">> \o JoinWords(Tail(ws))

TrimCollapse(s) == JoinWords(Words(s))

ValidText(s) == \E i \in 1..Len(s) : s[i] \notin Whitespace

\* a price as supplied: not negative, at most two decimal digits
ValidPrice(q) == ~q.neg /\ q.exp >= -2 /\ q.exp <= 0

\* the stored price d is the supplied price q written with two decimal digits
SameAmountTwoDigits(d, q) ==
    /\ d.exp = -2
    /\ ~d.neg
    /\ d.coef * Pow10(-q.exp) = q.coef * 100

ValidField(f, v) == IF f = "price" THEN ValidPrice(v) ELSE ValidText(v)

StoredAs(f, stored, v) ==
    IF f = "price" THEN SameAmountTwoDigits(stored, v) ELSE stored = TrimCollapse(v)

RowFields == {"id", "title", "author", "description", "price", "active", "image", "created_at"}

\* table t2 is table t1 but for the fields fs of row id
SameButFor(t1, t2, id, fs) ==
    /\ Len(t2) = Len(t1)
    /\ \A i \in 1..Len(t1) : i # id => t2[i] = t1[i]
    /\ \A g \in RowFields \ fs : t2[id][g] = t1[id][g]

\* C4: an Update of an active record that sends exactly one of title, author,
\* description and price, valid, (no image, no removal, the store not failing)
\* answers 200, stores that field normalised and changes nothing else.
SingleFieldUpdate ==
    \A f \in UpdatableFields :
        (/\ UpdateOfActive
         /\ SentFields(req.payload) = {f}
         /\ ValidField(f, req.payload[f])
         /\ req.file = <<>> /\ ~AsksRemoval
         /\ StoreOk)
        => /\ resp.status = 200
           /\ StoredAs(f, books[req.id][f], req.payload[f])
           /\ SameButFor(req.before, books, req.id, {f})
           /\ resp.book = <<books[req.id]>>

\* a title-only Update that changed the title of a record with an image
SingleFieldUpdated ==
    /\ UpdateOfActive
    /\ SentFields(req.payload) = {"title"}
    /\ req.file = <<>> /\ ~AsksRemoval
    /\ resp.status = 200
    /\ books[req.id].title # req.before[req.id].title
    /\ books[req.id].title # req.payload.title
    /\ books[req.id].image # <<>>

\* C5: an Update of an active record with an image that asks for the removal
\* and sends no field (the store not failing) answers 200, leaves the record
\* without image and calls the media host's delete once, with the old public id.
RemoveImageOnlySucceeds ==
    (/\ UpdateOfActive
     /\ req.before[req.id].image # <<>>
     /\ SentFields(req.payload) = {} /\ req.file = <<>> /\ AsksRemoval
     /\ StoreOk)
    => /\ resp.status = 200
       /\ books[req.id].image = <<>>
       /\ resp.calls = <<DeleteCall(req.before[req.id].image[1].public_id)>>

\* C6: a Create or an Update whose price is supplied with more than two decimal
\* digits (the store not failing) is answered 422 and leaves the table as it was.
PreciserPriceRejected ==
    (/\ Served({"create", "update"})
     /\ req.transport \in {"json", "multipart"}
     /\ Served({"update"}) => IsActive(req.before, req.id)
     /\ "price" \in DOMAIN req.payload
     /\ req.payload.price.exp < -2
     /\ StoreOk)
    => /\ resp.status = 422
       /\ books = req.before

\* the request carries no file, or a file that the media host stores
ImageAccepted ==
    \/ req.file = <<>>
    \/ /\ cloudinaryReady
       /\ req.file[1].content_type \in AllowedImageTypes
       /\ req.file[1].size <= MaxImageSize
       /\ req.outcome.upOk

ValidCreatePayload(p) ==
    /\ DOMAIN p = UpdatableFields
    /\ \A f \in UpdatableFields : ValidField(f, p[f])

\* C7: a Create with a valid payload (the collaborators not failing) answers 201
\* with the stored record: a new row with a fresh id, active, its text fields
\* the inputs trimmed and collapsed, its price the input with two decimal digits.
CreateNormalizes ==
    (/\ Served({"create"})
     /\ req.transport \in {"json", "multipart"}
     /\ ValidCreatePayload(req.payload)
     /\ ImageAccepted
     /\ StoreOk)
    => /\ resp.status = 201
       /\ Len(books) = Len(req.before) + 1
       /\ \A i \in 1..Len(req.before) : books[i] = req.before[i]
       /\ LET row == books[Len(books)]
          IN  /\ \A f \in UpdatableFields : StoredAs(f, row[f], req.payload[f])
              /\ row.active
              /\ \A i \in 1..Len(req.before) : req.before[i].id # row.id
              /\ resp.book = <<row>>

\* a second record created from a title with surplus whitespace and the price 1.9
CreatedNormalized ==
    /\ Served({"create"})
    /\ resp.status = 201
    /\ Len(books) = 2
    /\ req.payload.title # books[2].title
    /\ books[2].title = <<"a", " ", "b">>
    /\ req.payload.price.exp = -1
    /\ books[2].price = Decimal(FALSE, 190, -2)

CleanText(s) ==
    /\ Len(s) >= 1
    /\ s[1] \notin Whitespace
    /\ s[Len(s)] \notin Whitespace
    /\ \A i \in 1..(Len(s) - 1) : ~(s[i] \in Whitespace /\ s[i + 1] \in Whitespace)

\* C8: every stored row has a title, an author and a description that are not
\* empty, neither start nor end with whitespace and hold no two whitespace
\* characters in a row, and a price that is not negative and has two decimal
\* digits.
StoredRowsNormalized ==
    \A i \in 1..Len(books) :
        /\ \A f \in TextFields : CleanText(books[i][f])
        /\ books[i].price.exp = -2
        /\ books[i].price.coef >= 0
        /\ ~(books[i].price.neg /\ books[i].price.coef > 0)

\* a row that was created, updated field by field from unnormalised input, and deleted
NormalizedRowStored ==
    \E i \in 1..Len(books) :
        /\ ~books[i].active
        /\ books[i].title = <<"a", " ", "b">>
        /\ books[i].author = <<"a", " ", "b">>
        /\ books[i].description = <<"a", " ", "b">>
        /\ books[i].price = Decimal(FALSE, 0, -2)

ValidPage == req.limit \in 1..100 /\ req.offset >= 0

\* C9: a List with limit in 1..100 and offset >= 0 answers 200 with
\* min(limit, max(0, total - offset)) items, total being the number of active
\* rows; past the end the items are the empty sequence, not absent.
PageSize ==
    (Served({"list"}) /\ ValidPage)
    => /\ resp.status = 200
       /\ resp.page # <<>>
       /\ LET pg == resp.page[1]
          IN  /\ Len(pg.data) = Min(req.limit, Max(0, pg.total - req.offset))
              /\ pg.total = Cardinality({i \in 1..Len(books) : books[i].active})
              /\ req.offset >= pg.total => pg.data = <<>>

\* a List past the end of a table that holds active rows
PagePastEnd ==
    /\ Served({"list"}) /\ ValidPage
    /\ resp.page # <<>>
    /\ resp.page[1].total >= 2
    /\ req.offset >= resp.page[1].total
    /\ resp.page[1].data = <<>>

Links(r) == IF r.linkHeader = <<>> THEN {} ELSE {r.linkHeader[1][i] : i \in 1..Len(r.linkHeader[1])}

\* C10: the Link header of a List response holds a next link iff
\* offset + limit < total, and it carries limit and offset + limit; it holds a
\* prev link iff offset > 0, and it carries limit and max(0, offset - limit);
\* there is no Link header when neither holds.
LinkHeader ==
    (Served({"list"}) /\ resp.status = 200)
    => LET total == resp.page[1].total
           next == {l \in Links(resp) : l.rel = "next"}
           prev == {l \in Links(resp) : l.rel = "prev"}
       IN  /\ next # {} <=> req.offset + req.limit < total
           /\ \A l \in next : l.limit = req.limit /\ l.offset = req.offset + req.limit
           /\ prev # {} <=> req.offset > 0
           /\ \A l \in prev :
                 /\ l.limit = req.limit
                 /\ l.offset = IF req.offset - req.limit > 0 THEN req.offset - req.limit ELSE 0
           /\ Links(resp) = next \cup prev
           /\ resp.linkHeader = <<>> <=> ~(req.offset + req.limit < total) /\ ~(req.offset > 0)
           /\ resp.linkHeader # <<>> => Len(resp.linkHeader[1]) = Cardinality(Links(resp))

\* a page in the middle: a next link and a prev link that stops at offset 0
BothLinks ==
    /\ Served({"list"}) /\ resp.status = 200
    /\ \E l \in Links(resp) : l.rel = "next"
    /\ \E l \in Links(resp) : l.rel = "prev" /\ l.offset = 0 /\ req.offset < req.limit

\* C11: the total of a List response, in the body and in X-Total-Count, is
\* the number of active rows of the table whatever the limit and the offset,
\* and no inactive row is among the items.
TotalCountsActive ==
    (Served({"list"}) /\ resp.status = 200)
    => /\ resp.page[1].total = Cardinality({i \in 1..Len(books) : books[i].active})
       /\ resp.xTotalCount = <<resp.page[1].total>>
       /\ \A i \in 1..Len(resp.page[1].data) : resp.page[1].data[i].active

\* the last page of a table with two active rows and an inactive one
TotalOnLastPage ==
    /\ Served({"list"}) /\ resp.status = 200
    /\ Len(books) = 3
    /\ req.offset = 1 /\ req.limit = MaxLimit
    /\ resp.page[1].total = 2
    /\ Len(resp.page[1].data) = 1

\* row a is listed before row b: created later, or at the same time with the greater id
ListedBefore(a, b) ==
    \/ a.created_at > b.created_at
    \/ a.created_at = b.created_at /\ a.id > b.id

\* the active rows of a table, newest first, ties by id descending
NewestFirst(table) ==
    LET ids == {i \in 1..Len(table) : table[i].active}
        n == Cardinality(ids)
        o == CHOOSE f \in [1..n -> ids] :
                 \A i, j \in 1..n : i < j => ListedBefore(table[f[i]], table[f[j]])
    IN  [i \in 1..n |-> table[o[i]]]

\* C12: the items of a List response are the active rows ordered by creation
\* time descending, rows of equal creation time by id descending, from position
\* offset on and at most limit of them.
ListedNewestFirst ==
    (Served({"list"}) /\ resp.status = 200)
    => LET all == NewestFirst(books)
           data == resp.page[1].data
       IN  /\ Len(data) = Min(req.limit, Max(0, Len(all) - req.offset))
           /\ \A i \in 1..Len(data) : data[i] = all[req.offset + i]

\* C13: a List with limit below 1, limit above 100 or offset below 0 is
\* answered 422 without a page and leaves the table alone; any other List,
\* limit 1, limit 100 and offset 0 included, is answered 200 with a page.
ListQueryValidated ==
    Served({"list"})
    => IF req.limit < 1 \/ req.limit > 100 \/ req.offset < 0
       THEN /\ resp.status = 422
            /\ resp.page = <<>>
            /\ resp.xTotalCount = <<>>
            /\ books = req.before
       ELSE /\ resp.status = 200
            /\ resp.page # <<>>

\* a List with limit 101 refused on a table that has rows
ListQueryRefused ==
    /\ Served({"list"})
    /\ req.limit = 101 /\ req.offset = 0
    /\ Len(books) >= 1
    /\ resp.status = 422
    /\ "limit" \in resp.violations

\* a field as supplied breaks a rule of Create: a text that is empty once
\* trimmed, a price that is not a number or is below zero
BreaksRule(f, v) ==
    IF f = "price" THEN v.kind = "text" \/ (v.neg /\ v.coef > 0)
    ELSE ~ValidText(v)

\* the fields of a Create payload that are missing or break a rule
CreateViolations(p) ==
    {f \in UpdatableFields : f \notin DOMAIN p \/ BreaksRule(f, p[f])}

\* the fields of an Update payload that break a rule
UpdateViolations(p) ==
    {f \in UpdatableFields : f \in DOMAIN p /\ BreaksRule(f, p[f])}

\* C14: a Create, JSON or multipart, with a title, author, description or
\* price that is missing, empty once trimmed, not a number or negative is
\* answered 422 and stores nothing.
InvalidCreateRejected ==
    (/\ Served({"create"})
     /\ req.transport \in {"json", "multipart"}
     /\ CreateViolations(req.payload) # {}
     /\ StoreOk)
    => /\ resp.status = 422
       /\ books = req.before

\* a Create or an Update of an active record that breaks a field rule
FieldValidationFails ==
    /\ req.transport \in {"json", "multipart"}
    /\ \/ Served({"create"}) /\ CreateViolations(req.payload) # {}
       \/ UpdateOfActive /\ UpdateViolations(req.payload) # {}

\* C15: the body of every failed request holds an error string and a details
\* object, and when a Create or an Update fails field validation the details
\* hold validation_errors with an entry for every violated field.
ErrorBodyStructured ==
    (~Idle /\ resp.status >= 400)
    => /\ resp.details # <<>>
       /\ FieldValidationFails
          => /\ "validation_errors" \in DOMAIN resp.details[1]
             /\ LET violated == IF Served({"create"}) THEN CreateViolations(req.payload)
                                ELSE UpdateViolations(req.payload)
                IN  violated \subseteq resp.details[1].validation_errors

\* the request carries a file and gets as far as handing it to the upload
ReachesUpload ==
    /\ req.file # <<>>
    /\ \/ /\ Served({"create"}) /\ req.transport = "multipart"
          /\ ValidCreatePayload(req.payload)
       \/ /\ UpdateOfActive /\ req.transport = "multipart"
          /\ \A f \in SentFields(req.payload) : ValidField(f, req.payload[f])
          /\ ~(req.remove /\ req.before[req.id].image # <<>>)
       \/ Served({"attach"}) /\ IsActive(req.before, req.id)

\* the upload refuses the file or the media host fails
UploadFails ==
    \/ ~cloudinaryReady
    \/ req.file[1].content_type \notin AllowedImageTypes
    \/ req.file[1].size > MaxImageSize
    \/ ~req.outcome.upOk

\* C16: when the upload fails during a Create, an Update or an attach-image,
\* the request fails and the table is as it was: no row is inserted and no
\* field of the target row, text, price or image, is changed.
UploadFailureAborts ==
    (ReachesUpload /\ UploadFails)
    => /\ resp.status >= 400
       /\ books = req.before

\* the media host failed while an Update carried a new title and a new image
\* for a row that has an image
UploadFailedOnUpdate ==
    /\ UpdateOfActive /\ ReachesUpload
    /\ cloudinaryReady /\ ~req.outcome.upOk
    /\ req.file[1].content_type \in AllowedImageTypes
    /\ req.file[1].size <= MaxImageSize
    /\ "title" \in DOMAIN req.payload
    /\ req.payload.title # req.before[req.id].title
    /\ req.before[req.id].image # <<>>
    /\ resp.status = 500
    /\ books = req.before

\* C17: when the store fails during a Create, an Update, a Delete, an
\* attach-image or a remove-image, the request is answered 500 and the table is
\* as it was before the request.
StoreFailureRollsBack ==
    (/\ Served({"create", "update", "delete", "attach", "detach"})
     /\ ~StoreOk
     /\ resp.status = 500)
    => books = req.before

\* the handler asked the media host to destroy the image of the target row,
\* and nothing else
DestroysOldImage ==
    /\ IsActive(req.before, req.id)
    /\ req.before[req.id].image # <<>>
    /\ resp.calls = <<DeleteCall(req.before[req.id].image[1].public_id)>>

\* C18: a failure of the media host's delete is not surfaced: a Delete of a
\* row with an image answers 200 and leaves the row inactive, and a
\* remove-image, by its endpoint or by an Update that asks for the removal,
\* answers 200 and leaves the row without image, whatever the host's delete
\* does (the store not failing).
DeleteFailureSwallowed ==
    (DestroysOldImage /\ StoreOk)
    => /\ Served({"delete"})
          => resp.status = 200 /\ ~books[req.id].active
       /\ (Served({"detach"}) \/ (Served({"update"}) /\ AsksRemoval))
          => resp.status = 200 /\ books[req.id].image = <<>>

\* an Update removed the image of a row while the media host kept the asset
RemovedWhileHostFailed ==
    /\ Served({"update"}) /\ AsksRemoval /\ DestroysOldImage
    /\ cloudinaryReady /\ ~req.outcome.delOk
    /\ req.before[req.id].image[1].public_id \in cloud
    /\ resp.status = 200
    /\ books[req.id].image = <<>>

\* the request carries a file of a type that is not allowed or of a size
\* above the ceiling
CarriesInvalidImage ==
    /\ req.file # <<>>
    /\ \/ req.file[1].content_type \notin AllowedImageTypes
       \/ req.file[1].size > MaxImageSize

\* C19: a Create, an Update with a new image or an attach-image that carries an
\* image of a type that is not allowed or above the size ceiling calls the
\* media host neither for an upload nor for a delete.
InvalidImageReachesNoHost ==
    (/\ Served({"create", "update", "attach"})
     /\ CarriesInvalidImage
     /\ ~AsksRemoval
     /\ cloudinaryReady)
    => resp.calls = <<>>

\* an image reference is absent or a complete pair
CompleteImage(image) ==
    \/ image = <<>>
    \/ Len(image) = 1 /\ DOMAIN image[1] = {"url", "public_id"}

\* a reference to an asset that no row of the table referred to
NewImage(image, table) ==
    /\ image # <<>>
    /\ \A i \in 1..Len(table) : table[i].image # image

\* C20: every stored image reference is absent or a complete (url, public id)
\* pair, and a request that brings a new image to an active row leaves the
\* table either as it was, old reference included, or with the new reference
\* and the request's field updates together, and nothing else changed.
ImageReplacedAtomically ==
    /\ \A i \in 1..Len(books) : CompleteImage(books[i].image)
    /\ (/\ Served({"update", "attach"})
        /\ IsActive(req.before, req.id)
        /\ req.file # <<>>
        /\ ~AsksRemoval)
       => \/ books = req.before
          \/ /\ NewImage(books[req.id].image, req.before)
             /\ \A f \in SentFields(req.payload) :
                   StoredAs(f, books[req.id][f], req.payload[f])
             /\ SameButFor(req.before, books, req.id, SentFields(req.payload) \cup {"image"})

\* an Update replaced the image of a row and changed its title
ImageReplaced ==
    /\ UpdateOfActive /\ req.file # <<>> /\ ~AsksRemoval
    /\ req.before[req.id].image # <<>>
    /\ books[req.id].image # <<>>
    /\ books[req.id].image # req.before[req.id].image
    /\ "title" \in DOMAIN req.payload
    /\ books[req.id].title # req.before[req.id].title

\* a multipart Update of an active row that carries the remove flag and a new
\* file, with every field it sends valid
RemoveAndNewImage ==
    /\ UpdateOfActive /\ req.transport = "multipart"
    /\ req.remove /\ req.file # <<>>
    /\ \A f \in SentFields(req.payload) : ValidField(f, req.payload[f])

\* C25: in an Update that carries both the remove flag and a new image, the
\* removal wins when the row has an image: the old asset is purged, the row is
\* left without image and no upload is made; when the row has no image the flag
\* is ignored and the new image is uploaded and attached (the store and the
\* upload not failing).
RemovalWinsOverNewImage ==
    (RemoveAndNewImage /\ StoreOk)
    => IF req.before[req.id].image # <<>>
       THEN /\ resp.status = 200
            /\ books[req.id].image = <<>>
            /\ resp.calls = <<DeleteCall(req.before[req.id].image[1].public_id)>>
       ELSE ImageAccepted
            => /\ resp.status = 200
               /\ NewImage(books[req.id].image, req.before)
               /\ books[req.id].image[1].public_id \in cloud
               /\ resp.calls = <<UploadCall>>

\* the removal won over an acceptable new file
RemovalWon ==
    /\ RemoveAndNewImage /\ ImageAccepted
    /\ req.before[req.id].image # <<>>
    /\ resp.status = 200
    /\ books[req.id].image = <<>>

\* the active rows of the table that refer to the asset public_id
ReferencedBy(table, public_id) ==
    {i \in ActiveIds(table) :
        table[i].image # <<>> /\ table[i].image[1].public_id = public_id}

\* C26: when an Update, an attach-image or a remove-image ends, by success or
\* by failure, the media host's delete has been invoked only for assets that no
\* active row of the committed table refers to any more.
DeletedAssetsUnreferenced ==
    Served({"update", "attach", "detach"})
    => \A k \in 1..Len(resp.calls) :
          resp.calls[k].fn = "delete"
          => ReferencedBy(books, resp.calls[k].public_id) = {}

\* C29: over an unchanged table, following the next links from offset 0 with a
\* fixed limit until a page has none visits every active row exactly once,
\* whatever the creation times, equal ones included.
WalkVisitsEachOnce ==
    walk.done
    => /\ Len(walk.seen) = CountActive(books)
       /\ {walk.seen[i] : i \in 1..Len(walk.seen)} = ActiveIds(books)

----------------------------------------------------------------------------
(* Properties of requests in progress side by side *)

Texts == {"title", "author", "description", "price", "image"}

CommitsOf(ops, id) ==
    {k \in 1..Len(log) : log[k].ev = "commit" /\ log[k].op \in ops /\ log[k].id = id}

\* C21: no committed write sets the active flag of a row back from false to
\* true, whatever requests are in progress and however their statements
\* interleave.
ActiveNeverRestored ==
    [][\A i \in 1..Len(books) : ~books[i].active => ~books'[i].active]_vars

\* an Update or an image request has committed after the Delete of its row
WriteAfterDelete ==
    \E i \in ConcIds :
        \E d \in CommitsOf({"delete"}, i), u \in CommitsOf({"update", "attach", "detach"}, i) :
            d < u

\* the steps of a request, in the order they were taken
Mark(w, k) == procs[w].trace[k]

StepsOrdered(w) ==
    LET n == Len(procs[w].trace)
    IN  /\ \A k \in 1..n :
              Mark(w, k) \in {"delete", "upload"}
              => \E j \in 1..(k - 1) : Mark(w, j) = "validated"
        /\ \A k \in 1..n :
              Mark(w, k) = "commit"
              => \A j \in 1..n : Mark(w, j) \in {"validated", "delete", "upload"} => j < k

\* the step of worker w is a commit that writes all it has set on its row
CommitsWhole(w) ==
    LET q == procs[w]
    IN  /\ q.pc = "commit" /\ procs'[w].pc = "refresh"
        /\ \A v \in Workers \ {w} : procs'[v].pc = procs[v].pc
        /\ q.op # "create"
           => \A f \in Columns :
                 Pending(q)[f] # q.loaded[1][f] => books'[q.id][f] = Pending(q)[f]

\* C22: within a Create or an Update the fields are validated before any call
\* to the media host, and the commit comes after the upload has returned; the
\* table changes only by a commit, which writes all the request has set at once.
ValidateUploadPersist ==
    /\ [](\A w \in Workers : procs[w].op \in {"create", "update"} => StepsOrdered(w))
    /\ [][books' # books => \E w \in Workers : CommitsWhole(w)]_vars

\* an Update has validated, replaced the image and committed
ImageReplacingUpdate ==
    \E w \in Workers :
        /\ procs[w].op = "update"
        /\ procs[w].trace = <<"validated", "delete", "upload", "commit">>

\* C23: a request that got a session releases it exactly once, on every way
\* out of the handler: no session is held once its request is finished.
SessionReleasedOnce ==
    \A w \in Workers :
        /\ procs[w].released <= 1
        /\ procs[w].held => procs[w].released = 0
        /\ procs[w].pc = "done" => ~procs[w].held /\ procs[w].released = 1
        /\ procs[w].pc = "idle" => ~procs[w].held

\* a request has ended with a store failure, the other with a 404 or a 422
ReleasedAfterFailures ==
    \E a, b \in Workers :
        /\ procs[a].pc = "done" /\ procs[a].status = 500
        /\ procs[b].pc = "done" /\ procs[b].status \in {404, 422}

\* the place in the log of the commit of the request worker w is serving
CommitAt(w) ==
    LET ks == {k \in 1..Len(log) : log[k].ev = "commit" /\ log[k].w = w}
    IN  CHOOSE k \in ks : \A j \in ks : j <= k

\* a and b have both updated the same row and answered 200, a committed
\* first, and b had read the row before that
ConcurrentUpdates(a, b) ==
    /\ a # b
    /\ procs[a].op = "update" /\ procs[a].status = 200
    /\ procs[b].op = "update" /\ procs[b].status = 200
    /\ procs[a].id = procs[b].id
    /\ CommitAt(a) < CommitAt(b)
    /\ procs[b].readAt < CommitAt(a)

\* C24: when two concurrent Updates of a row have both committed, a field both
\* sent holds the value of the Update that committed last, and a field only
\* one sent holds that one's value.
LastWriteWins ==
    \A a, b \in Workers :
        ConcurrentUpdates(a, b)
        => \A f \in {"title", "author"} :
              LET pa == procs[a].payload
                  pb == procs[b].payload
                  stored == books[procs[a].id][f]
              IN  /\ Has(pb, f) => stored = NormalizeText(pb[f])
                  /\ (Has(pa, f) /\ ~Has(pb, f)) => stored = NormalizeText(pa[f])

\* the Deletes of row id that have answered 200
DeletesAnswered(id) ==
    {k \in CommitsOf({"delete"}, id) :
        ~(procs[log[k].w].pc = "refresh" /\ CommitAt(log[k].w) = k)}

\* the calls of the media host's delete that the Deletes of row id have made
DeletePurges(id) ==
    {k \in 1..Len(log) : log[k].ev = "purge" /\ log[k].op = "delete" /\ log[k].id = id}

\* C27: of the Deletes of one id, concurrent or not, at most one answers 200,
\* and they call the media host's delete at most once.
DeleteSucceedsOnce ==
    \A id \in ConcIds :
        /\ Cardinality(DeletesAnswered(id)) <= 1
        /\ Cardinality(DeletePurges(id)) <= 1

\* C28: once the Delete of a row has committed, no later commit changes the
\* title, author, description, price or image of the row.
DeletedRowFrozen ==
    [][\A i \in 1..Len(books) :
          ~books[i].active => \A f \in Texts : books'[i][f] = books[i][f]]_vars

\* C30: the total and the items of a List response are those of one table
\* that was the committed one at some instant of the call.
ListOfOneInstant ==
    \A w \in Workers :
        (procs[w].op = "list" /\ procs[w].status = 200)
        => \E t \in procs[w].during :
              /\ procs[w].total = CountActive(t)
              /\ \E order \in CreatedDescOrders(t) :
                    procs[w].items = Slice([i \in 1..Len(order) |-> t[order[i]]],
                                           MaxLimit, MinOffset)

====
